---- MODULE Spec2Model ----
(***************************************************************************)
(* A model of the k-hot proof of src/src/k_hot_proof.rs: KHotProof::prove,  *)
(* KHotProof::verify, KHotProof::to_bytes, KHotProof::from_bytes and delta. *)
(*                                                                         *)
(* The scalar field is the prime field of order P.  The group is the free   *)
(* module over that field on the independent generators B, B_blinding,      *)
(* G_0.., H_0..: a point is the vector of its coordinates on them, so an    *)
(* equation between points holds in the model exactly when it holds for     *)
(* independent generators.  A 32-byte string is a word: a vector of Dim     *)
(* digits in 0..P.  A point compresses to its coordinates, the last one     *)
(* first (the identity to the all-zero word); a word with a digit P         *)
(* decompresses to nothing.  A scalar s is encoded as the word of value s;  *)
(* a word is a canonical scalar when its value is below P.                  *)
(*                                                                         *)
(* A transcript is the sequence of the operations performed on it.  A       *)
(* challenge is a digest of that sequence reduced modulo P.                 *)
(***************************************************************************)
EXTENDS Integers, Sequences, FiniteSets, TLC

\* ------------------------------------------------------------------ bounds
MaxN == 4
MaxSeed == 2
MaxDeltaN == 12

\* --------------------------------------------------------- the scalar field
P == 7
Scalars == 0 .. (P - 1)

Add(a, b) == (a + b) % P
Sub(a, b) == (a + P - (b % P)) % P
Mul(a, b) == (a * b) % P
Neg(a) == (P - (a % P)) % P

RECURSIVE Pow(_, _)
Pow(a, e) ==
    IF e = 0 THEN 1
    ELSE IF e % 2 = 0 THEN Pow(Mul(a, a), e \div 2)
    ELSE Mul(a, Pow(a, e - 1))

\* Scalar::invert: a^(P-2); the inverse of zero is zero
Invert(a) == Pow(a, P - 2)

\* Scalar::from(n as u64)
ScalarFrom(n) == n % P

\* ------------------------------------------------------------------ vectors
Range(n) == 1 .. n

RECURSIVE SumRange(_, _)
SumRange(f, n) == IF n = 0 THEN 0 ELSE Add(SumRange(f, n - 1), f[n])

\* util::inner_product
inner_product(a, b) == SumRange([i \in Range(Len(a)) |-> Mul(a[i], b[i])], Len(a))

\* util::exp_iter(x).take(n): 1, x, x^2, ...
exp_iter(x, n) == [i \in Range(n) |-> Pow(x, i - 1)]

RECURSIVE sum_of_powers(_, _)
\* util::sum_of_powers: the sum of x^i for i in 0..n-1
sum_of_powers(x, n) ==
    IF n = 0 THEN 0
    ELSE IF n % 2 = 0 THEN Mul(Add(1, Pow(x, n \div 2)), sum_of_powers(x, n \div 2))
    ELSE Add(sum_of_powers(x, n - 1), Pow(x, n - 1))

IsPowerOfTwo(n) == \E j \in 0 .. n : 2 ^ j = n

RECURSIVE Log2(_)
Log2(n) == IF n <= 1 THEN 0 ELSE 1 + Log2(n \div 2)

\* -------------------------------------------------------------------- group
Dim == 2 + 2 * MaxN
Unit(k) == [i \in Range(Dim) |-> IF i = k THEN 1 ELSE 0]
Identity == [i \in Range(Dim) |-> 0]
\* PedersenGens::default
pc_B == Unit(1)
pc_B_blinding == Unit(2)
\* BulletproofGens: G_i and H_i, i counted from 1
gens_G(i) == Unit(2 + i)
gens_H(i) == Unit(2 + MaxN + i)

PAdd(p, q) == [i \in Range(Dim) |-> Add(p[i], q[i])]
PMul(s, p) == [i \in Range(Dim) |-> Mul(s, p[i])]
PNeg(p) == [i \in Range(Dim) |-> Neg(p[i])]

RECURSIVE MsmUpTo(_, _, _)
MsmUpTo(scalars, points, n) ==
    IF n = 0 THEN Identity
    ELSE PAdd(MsmUpTo(scalars, points, n - 1), PMul(scalars[n], points[n]))
\* RistrettoPoint::multiscalar_mul
multiscalar_mul(scalars, points) == MsmUpTo(scalars, points, Len(scalars))

\* PedersenGens::commit
commit(v, r) == PAdd(PMul(v, pc_B), PMul(r, pc_B_blinding))

\* --------------------------------------------------------- 32-byte strings
ZeroWord == [i \in Range(Dim) |-> 0]
\* a string that is neither a point nor a canonical scalar
BadWord == [i \in Range(Dim) |-> P]
\* RistrettoPoint::compress: the coordinates, the last one first
compress(p) == [i \in Range(Dim) |-> p[Dim + 1 - i]]
IsPointWord(w) == \A i \in Range(Dim) : w[i] < P
\* CompressedRistretto::decompress (defined where IsPointWord holds)
decompress(w) == [i \in Range(Dim) |-> w[Dim + 1 - i]]
\* Scalar::as_bytes
as_bytes(s) == [i \in Range(Dim) |-> IF i = 1 THEN s ELSE 0]
\* Scalar::from_canonical_bytes succeeds
IsCanonical(w) == w[1] < P /\ \A i \in 2 .. Dim : w[i] = 0
from_canonical_bytes(w) == w[1]
\* n as u64, little-endian
u64_bytes(n) == [i \in Range(Dim) |-> IF i = 1 THEN n ELSE 0]

\* --------------------------------------------------------------- transcript
Entry(op, label, val) == [op |-> op, label |-> label, val |-> val]
\* Transcript::new(label)
NewTranscript(label) == << Entry("new", label, ZeroWord) >>
k_hot_proof_domain_sep(tr, n) == Append(tr, Entry("dom", "k-hot-proof v1", u64_bytes(n)))
append_point(tr, label, w) == Append(tr, Entry("point", label, w))
append_scalar(tr, label, s) == Append(tr, Entry("scalar", label, as_bytes(s)))

LabelCode(label) ==
    CASE label = "KHotProofTest" -> 1
      [] label = "OtherLabel" -> 2
      [] label = "k-hot-proof v1" -> 3
      [] label = "A" -> 4
      [] label = "S" -> 5
      [] label = "y" -> 6
      [] label = "z" -> 7
      [] label = "T_1" -> 8
      [] label = "T_2" -> 9
      [] label = "x" -> 10
      [] label = "t_x" -> 11
      [] label = "t_x_blinding" -> 12
      [] label = "e_blinding" -> 13
      [] label = "w" -> 14
      [] label = "L" -> 15
      [] label = "R" -> 16
      [] label = "u" -> 17
      [] OTHER -> 18
OpCode(op) ==
    CASE op = "new" -> 1
      [] op = "dom" -> 2
      [] op = "point" -> 3
      [] op = "scalar" -> 4
      [] OTHER -> 5

RECURSIVE WordCode(_, _)
WordCode(w, n) == IF n = 0 THEN 0 ELSE (WordCode(w, n - 1) * 3 + w[n] + n) % 1009

RECURSIVE Digest(_, _)
\* the state of the sponge after the first n operations of tr
Digest(tr, n) ==
    IF n = 0 THEN 0
    ELSE (Digest(tr, n - 1) * 31 + OpCode(tr[n].op) * 19 + LabelCode(tr[n].label) * 5
            + WordCode(tr[n].val, Dim)) % 1009

\* the transcript after a challenge has been squeezed from it
challenge_tr(tr, label) == Append(tr, Entry("challenge", label, ZeroWord))
\* TranscriptProtocol::challenge_scalar: a scalar fixed by all that was absorbed
challenge_scalar(tr, label) == Digest(challenge_tr(tr, label), Len(tr) + 1) % P

\* validate_and_append_point fails when the point is the identity or is malformed
validate_point(w) == IsPointWord(w) /\ w # compress(Identity)

\* ------------------------------------------------------- polynomial helpers
\* VecPoly1::inner_product: Poly2(<l0,r0>, <l0,r1> + <l1,r0>, <l1,r1>)
VecPoly1_inner_product(l0, l1, r0, r1) ==
    << inner_product(l0, r0),
       Add(inner_product(l0, r1), inner_product(l1, r0)),
       inner_product(l1, r1) >>
\* VecPoly1::eval: a + b * x
VecPoly1_eval(a, b, x) == [i \in Range(Len(a)) |-> Add(a[i], Mul(b[i], x))]
\* Poly2::eval: t0 + t1 x + t2 x^2
Poly2_eval(t, x) == Add(t[1], Mul(x, Add(t[2], Mul(x, t[3]))))

\* ---------------------------------------------------- inner-product argument
Lo(v) == SubSeq(v, 1, Len(v) \div 2)
Hi(v) == SubSeq(v, Len(v) \div 2 + 1, Len(v))

RECURSIVE IppRounds(_, _, _, _, _, _, _, _)
\* the halving rounds on vectors of length Len(l), the bases G1, H1 carrying their factors
IppRounds(tr, Q, G1, H1, l, r, Ls, Rs) ==
    IF Len(l) <= 1
    THEN [tr |-> tr, L_vec |-> Ls, R_vec |-> Rs, a |-> l[1], b |-> r[1]]
    ELSE
      LET c_L == inner_product(Lo(l), Hi(r))
          c_R == inner_product(Hi(l), Lo(r))
          L == PAdd(PAdd(multiscalar_mul(Lo(l), Hi(G1)), multiscalar_mul(Hi(r), Lo(H1))),
                    PMul(c_L, Q))
          R == PAdd(PAdd(multiscalar_mul(Hi(l), Lo(G1)), multiscalar_mul(Lo(r), Hi(H1))),
                    PMul(c_R, Q))
          tr1 == append_point(append_point(tr, "L", compress(L)), "R", compress(R))
          u == challenge_scalar(tr1, "u")
          u_inv == Invert(u)
          h == Len(l) \div 2
          l2 == [i \in Range(h) |-> Add(Mul(Lo(l)[i], u), Mul(Hi(l)[i], u_inv))]
          r2 == [i \in Range(h) |-> Add(Mul(Lo(r)[i], u_inv), Mul(Hi(r)[i], u))]
          G2 == [i \in Range(h) |-> PAdd(PMul(u_inv, Lo(G1)[i]), PMul(u, Hi(G1)[i]))]
          H2 == [i \in Range(h) |-> PAdd(PMul(u, Lo(H1)[i]), PMul(u_inv, Hi(H1)[i]))]
      IN  IppRounds(challenge_tr(tr1, "u"), Q, G2, H2, l2, r2,
                    Append(Ls, compress(L)), Append(Rs, compress(R)))

\* InnerProductProof::create
InnerProductProof_create(tr, Q, G_factors, H_factors, G, H, l_vec, r_vec) ==
    IppRounds(tr, Q,
              [i \in Range(Len(G)) |-> PMul(G_factors[i], G[i])],
              [i \in Range(Len(H)) |-> PMul(H_factors[i], H[i])],
              l_vec, r_vec, << >>, << >>)

RECURSIVE ReplayRounds(_, _, _, _)
\* the verifier's replay of the halving challenges: the transcript and u_1, u_2, ...
ReplayRounds(tr, L_vec, R_vec, j) ==
    IF j > Len(L_vec) THEN [tr |-> tr, u |-> << >>]
    ELSE
      LET tr1 == append_point(append_point(tr, "L", L_vec[j]), "R", R_vec[j])
          rest == ReplayRounds(challenge_tr(tr1, "u"), L_vec, R_vec, j + 1)
      IN  [tr |-> rest.tr, u |-> << challenge_scalar(tr1, "u") >> \o rest.u]

\* bit b (0 = lowest) of i
Bit(i, b) == (i \div (2 ^ b)) % 2

RECURSIVE SProd(_, _, _)
\* s_i: the product over the rounds j of u_j or its inverse, by the bits of i
SProd(u, i, j) ==
    IF j > Len(u) THEN 1
    ELSE Mul(IF Bit(i, Len(u) - j) = 1 THEN u[j] ELSE Invert(u[j]), SProd(u, i, j + 1))

\* InnerProductProof::verification_scalars succeeds
verification_scalars_ok(ipp, n) == n = 2 ^ Len(ipp.L_vec)
\* InnerProductProof::verification_scalars: (u^2, u^-2, s) and the transcript after it
verification_scalars(ipp, n, tr) ==
    LET rep == ReplayRounds(tr, ipp.L_vec, ipp.R_vec, 1)
    IN  [tr |-> rep.tr,
         x_sq |-> [j \in Range(Len(rep.u)) |-> Mul(rep.u[j], rep.u[j])],
         x_inv_sq |-> [j \in Range(Len(rep.u)) |-> Mul(Invert(rep.u[j]), Invert(rep.u[j]))],
         s |-> [i \in Range(n) |-> SProd(rep.u, i - 1, 1)]]

\* -------------------------------------------------------------------- state
VARIABLES
    gens_capacity,  \* bp_gens.gens_capacity
    secret_vec,     \* the prover's vector of 0/1 bytes
    label,          \* the application label of both transcripts
    seed,           \* the state of the prover's thread_rng
    p_pc,           \* where prove is
    p_tr,           \* the prover's transcript
    p_loc,              \* the locals of prove
    p_result,       \* what prove returned
    proof,          \* the KHotProof that prove returned
    wire,           \* the byte slice given to from_bytes
    tampered,       \* whether the slice was changed on the way
    parse_result,   \* what from_bytes returned
    v_proof,        \* the KHotProof that from_bytes returned
    v_pc,           \* where verify is
    v_tr,           \* the verifier's transcript
    v_n,            \* the n argument of verify
    v_loc,              \* the locals of verify
    v_result,       \* what verify returned
    d_in,           \* test_delta: n, y, z
    d_pc,           \* where test_delta is
    d_i,            \* test_delta: the iterations done
    power_g,        \* test_delta: the accumulated sum
    exp_y           \* test_delta: y^i

vars == << gens_capacity, secret_vec, label, seed, p_pc, p_tr, p_loc, p_result, proof,
           wire, tampered, parse_result, v_proof, v_pc, v_tr, v_n, v_loc, v_result,
           d_in, d_pc, d_i, power_g, exp_y >>

inputs == << gens_capacity, secret_vec, label, seed >>
prover == << p_pc, p_tr, p_loc, p_result, proof >>
parser == << wire, tampered, parse_result, v_proof >>
verifier == << v_pc, v_tr, v_n, v_loc, v_result >>
delta_test == << d_in, d_pc, d_i, power_g, exp_y >>

NoIpp == [L_vec |-> << >>, R_vec |-> << >>, a |-> 0, b |-> 0]
NoProof == [A |-> ZeroWord, S |-> ZeroWord, T_1 |-> ZeroWord, T_2 |-> ZeroWord,
            t_x |-> 0, t_x_blinding |-> 0, e_blinding |-> 0, ipp_proof |-> NoIpp]
NoProverLocals == [A |-> Identity, S |-> Identity, T_1 |-> Identity, T_2 |-> Identity,
                   y |-> 0, z |-> 0, x |-> 0, w |-> 0,
                   t_x |-> 0, t_x_blinding |-> 0, e_blinding |-> 0]
NoVerifierLocals == [y |-> 0, z |-> 0, x |-> 0, w |-> 0, c |-> 0,
                     x_sq |-> << >>, x_inv_sq |-> << >>, s |-> << >>,
                     mega_check |-> Identity]
NoWire == [words |-> << >>, rem |-> 0]

\* the binary vectors of length n
BinaryVecs(n) == [Range(n) -> {0, 1}]
Labels == {"KHotProofTest", "OtherLabel"}
Capacities == {2, MaxN}

\* -------------------------------------------------------------------- prove
\* the j-th scalar that Scalar::random draws from the prover's thread_rng
Rand(sd, j) == (sd * (j * j + 1)) % P
a_blinding == Rand(seed, 1)
s_blinding == Rand(seed, 2)
s_L == [i \in Range(Len(secret_vec)) |-> Rand(seed, 2 + i)]
s_R == [i \in Range(Len(secret_vec)) |-> Rand(seed, 2 + Len(secret_vec) + i)]
t_1_blinding == Rand(seed, 3 + 2 * Len(secret_vec))
t_2_blinding == Rand(seed, 4 + 2 * Len(secret_vec))

\* A = <a_L, G> + <a_R, H> + a_blinding * B_blinding, by a select of G_i or -H_i
CommitA(vec, blinding) ==
    PAdd(PMul(blinding, pc_B_blinding),
         multiscalar_mul([i \in Range(Len(vec)) |-> 1],
                         [i \in Range(Len(vec)) |->
                            IF vec[i] = 1 THEN gens_G(i) ELSE PNeg(gens_H(i))]))

\* S = <s_L, G> + <s_R, H> + s_blinding * B_blinding
CommitS(blinding, sl, sr) ==
    multiscalar_mul(<< blinding >> \o sl \o sr,
                    << pc_B_blinding >> \o [i \in Range(Len(sl)) |-> gens_G(i)]
                                        \o [i \in Range(Len(sr)) |-> gens_H(i)])

\* the coefficients of l(X) and r(X)
l_poly_0(vec, z) == [i \in Range(Len(vec)) |-> Sub(ScalarFrom(vec[i]), z)]
l_poly_1(sl) == sl
r_poly_0(vec, y, z) ==
    [i \in Range(Len(vec)) |->
        Add(Mul(Pow(y, i - 1), Add(Sub(ScalarFrom(vec[i]), 1), z)), Mul(z, z))]
r_poly_1(sr, y) == [i \in Range(Len(sr)) |-> Mul(Pow(y, i - 1), sr[i])]

t_poly(vec, sl, sr, y, z) ==
    VecPoly1_inner_product(l_poly_0(vec, z), l_poly_1(sl), r_poly_0(vec, y, z), r_poly_1(sr, y))

\* the mutant of ProveRejects: the check is off by one
ProveRejects_off_by_one(capacity, n) == capacity + 1 < n
\* line 61: bp_generators.gens_capacity < n
ProveRejects(capacity, n) == capacity < n

\* lines 60-66: the capacity check, then the domain separator
ProveEntry ==
    /\ p_pc = "start"
    /\ IF ProveRejects(gens_capacity, Len(secret_vec))
       THEN /\ p_pc' = "done"
            /\ p_result' = "InvalidGeneratorsLength"
            /\ UNCHANGED p_tr
       ELSE /\ p_pc' = "commit_AS"
            /\ p_tr' = k_hot_proof_domain_sep(p_tr, Len(secret_vec))
            /\ UNCHANGED p_result
    /\ UNCHANGED << inputs, p_loc, proof, parser, verifier, delta_test >>

\* lines 68-103: A and S, absorbed; the challenges y and z
ProveCommitAS ==
    /\ p_pc = "commit_AS"
    /\ LET A == CommitA(secret_vec, a_blinding)
           S == CommitS(s_blinding, s_L, s_R)
           tr1 == append_point(append_point(p_tr, "A", compress(A)), "S", compress(S))
           tr2 == challenge_tr(tr1, "y")
       IN  /\ p_loc' = [p_loc EXCEPT !.A = A, !.S = S,
                             !.y = challenge_scalar(tr1, "y"),
                             !.z = challenge_scalar(tr2, "z")]
           /\ p_tr' = challenge_tr(tr2, "z")
    /\ p_pc' = "commit_T"
    /\ UNCHANGED << inputs, p_result, proof, parser, verifier, delta_test >>

\* lines 105-137: t(X), T_1 and T_2, absorbed; the challenge x
ProveCommitT ==
    /\ p_pc = "commit_T"
    /\ LET t == t_poly(secret_vec, s_L, s_R, p_loc.y, p_loc.z)
           T_1 == commit(t[2], t_1_blinding)
           T_2 == commit(t[3], t_2_blinding)
           tr1 == append_point(append_point(p_tr, "T_1", compress(T_1)), "T_2", compress(T_2))
       IN  /\ p_loc' = [p_loc EXCEPT !.T_1 = T_1, !.T_2 = T_2, !.x = challenge_scalar(tr1, "x")]
           /\ p_tr' = challenge_tr(tr1, "x")
    /\ p_pc' = "eval"
    /\ UNCHANGED << inputs, p_result, proof, parser, verifier, delta_test >>

\* lines 139-152: t_x, t_x_blinding, e_blinding, absorbed; the challenge w
ProveEval ==
    /\ p_pc = "eval"
    /\ LET t_x == Poly2_eval(t_poly(secret_vec, s_L, s_R, p_loc.y, p_loc.z), p_loc.x)
           t_x_blinding == Poly2_eval(<< 0, t_1_blinding, t_2_blinding >>, p_loc.x)
           e_blinding == Add(a_blinding, Mul(s_blinding, p_loc.x))
           tr1 == append_scalar(append_scalar(append_scalar(p_tr, "t_x", t_x),
                                              "t_x_blinding", t_x_blinding),
                                "e_blinding", e_blinding)
       IN  /\ p_loc' = [p_loc EXCEPT !.t_x = t_x, !.t_x_blinding = t_x_blinding,
                             !.e_blinding = e_blinding,
                             !.w = challenge_scalar(tr1, "w")]
           /\ p_tr' = challenge_tr(tr1, "w")
    /\ p_pc' = "ipp"
    /\ UNCHANGED << inputs, p_result, proof, parser, verifier, delta_test >>

\* lines 153-179: the inner-product argument on l(x), r(x); the proof is returned.
\* The halving is defined for a power of two only: for another n the call is abandoned.
ProveIPP ==
    /\ p_pc = "ipp"
    /\ IF ~IsPowerOfTwo(Len(secret_vec))
       THEN /\ p_result' = "Abort"
            /\ UNCHANGED << p_tr, proof >>
       ELSE
         LET n == Len(secret_vec)
             Q == PMul(p_loc.w, pc_B)
             G_factors == [i \in Range(n) |-> 1]
             H_factors == exp_iter(Invert(p_loc.y), n)
             l_vec == VecPoly1_eval(l_poly_0(secret_vec, p_loc.z), l_poly_1(s_L), p_loc.x)
             r_vec == VecPoly1_eval(r_poly_0(secret_vec, p_loc.y, p_loc.z), r_poly_1(s_R, p_loc.y), p_loc.x)
             ipp == InnerProductProof_create(p_tr, Q, G_factors, H_factors,
                                             [i \in Range(n) |-> gens_G(i)],
                                             [i \in Range(n) |-> gens_H(i)],
                                             l_vec, r_vec)
         IN  /\ p_tr' = ipp.tr
             /\ proof' = [A |-> compress(p_loc.A), S |-> compress(p_loc.S),
                          T_1 |-> compress(p_loc.T_1), T_2 |-> compress(p_loc.T_2),
                          t_x |-> p_loc.t_x, t_x_blinding |-> p_loc.t_x_blinding,
                          e_blinding |-> p_loc.e_blinding,
                          ipp_proof |-> [L_vec |-> ipp.L_vec, R_vec |-> ipp.R_vec,
                                         a |-> ipp.a, b |-> ipp.b]]
             /\ p_result' = "Ok"
    /\ p_pc' = "done"
    /\ UNCHANGED << inputs, p_loc, parser, verifier, delta_test >>

\* ------------------------------------------------------------ serialization
SliceLen(slice) == 32 * Len(slice.words) + slice.rem

RECURSIVE Interleave(_, _, _)
Interleave(Ls, Rs, j) ==
    IF j > Len(Ls) THEN << >> ELSE << Ls[j], Rs[j] >> \o Interleave(Ls, Rs, j + 1)

\* InnerProductProof::to_bytes_iter: L_0, R_0, ..., a, b
ipp_to_bytes(ipp) ==
    Interleave(ipp.L_vec, ipp.R_vec, 1) \o << as_bytes(ipp.a), as_bytes(ipp.b) >>

\* the mutant of to_bytes: t_x_blinding is written before t_x
to_bytes_swapped(pr) ==
    [words |-> << pr.A, pr.S, pr.T_1, pr.T_2,
                  as_bytes(pr.t_x_blinding), as_bytes(pr.t_x), as_bytes(pr.e_blinding) >>
               \o ipp_to_bytes(pr.ipp_proof),
     rem |-> 0]
\* KHotProof::to_bytes
to_bytes(pr) ==
    [words |-> << pr.A, pr.S, pr.T_1, pr.T_2,
                  as_bytes(pr.t_x), as_bytes(pr.t_x_blinding), as_bytes(pr.e_blinding) >>
               \o ipp_to_bytes(pr.ipp_proof),
     rem |-> 0]

\* InnerProductProof::from_bytes on the 32-byte strings of the tail
ipp_from_bytes(tail) ==
    IF Len(tail) < 2 \/ (Len(tail) - 2) % 2 # 0
    THEN [result |-> "FormatError", ipp |-> NoIpp]
    ELSE IF ~IsCanonical(tail[Len(tail) - 1]) \/ ~IsCanonical(tail[Len(tail)])
    THEN [result |-> "FormatError", ipp |-> NoIpp]
    ELSE [result |-> "Ok",
          ipp |-> [L_vec |-> [j \in Range((Len(tail) - 2) \div 2) |-> tail[2 * j - 1]],
                   R_vec |-> [j \in Range((Len(tail) - 2) \div 2) |-> tail[2 * j]],
                   a |-> from_canonical_bytes(tail[Len(tail) - 1]),
                   b |-> from_canonical_bytes(tail[Len(tail)])]]

ParseFails(res, upto) == [result |-> res, proof |-> NoProof, read_end |-> upto]

\* lines 314-337: the seven reads at 0, 32, ..., 192 and the tail from 224.
\* read32(&slice[j * 32..]) panics when the slice holds fewer than j * 32 + 32 bytes.
from_bytes_fields(slice) ==
    LET ws == slice.words
    IN  IF Len(ws) < 7 THEN ParseFails("Panic", 32 * (Len(ws) + 1))
        ELSE IF ~IsCanonical(ws[5]) THEN ParseFails("FormatError", 5 * 32)
        ELSE IF ~IsCanonical(ws[6]) THEN ParseFails("FormatError", 6 * 32)
        ELSE IF ~IsCanonical(ws[7]) THEN ParseFails("FormatError", 7 * 32)
        ELSE
          LET tl == ipp_from_bytes(SubSeq(ws, 8, Len(ws)))
          IN  IF tl.result # "Ok" THEN ParseFails(tl.result, 32 * Len(ws))
              ELSE [result |-> "Ok",
                    proof |-> [A |-> ws[1], S |-> ws[2], T_1 |-> ws[3], T_2 |-> ws[4],
                               t_x |-> from_canonical_bytes(ws[5]),
                               t_x_blinding |-> from_canonical_bytes(ws[6]),
                               e_blinding |-> from_canonical_bytes(ws[7]),
                               ipp_proof |-> tl.ipp],
                    read_end |-> 32 * Len(ws)]

\* the mutant of LengthRejected: the check of the minimal length is missing
LengthRejected_no_min(slice) == SliceLen(slice) % 32 # 0
\* lines 305-310: the two length checks
LengthRejected(slice) == SliceLen(slice) % 32 # 0 \/ SliceLen(slice) < 7 * 32

\* KHotProof::from_bytes
from_bytes(slice) ==
    IF LengthRejected(slice) THEN ParseFails("FormatError", 0)
    ELSE from_bytes_fields(slice)

\* the prover serializes the proof it was given
ToBytes ==
    /\ p_pc = "done" /\ p_result = "Ok" /\ wire = NoWire /\ parse_result = "none"
    /\ wire' = to_bytes(proof)
    /\ UNCHANGED << inputs, prover, tampered, parse_result, v_proof, verifier, delta_test >>

SetWord(ws, j, w) == [ws EXCEPT ![j] = w]

\* the slice is changed on the way: one 32-byte string replaced, the slice cut short,
\* or bytes added at its end
Tamper ==
    /\ wire # NoWire /\ ~tampered /\ parse_result = "none"
    /\ \/ \E j \in Range(Len(wire.words)), w \in {ZeroWord, BadWord} :
            /\ wire.words[j] # w
            /\ wire' = [wire EXCEPT !.words = SetWord(wire.words, j, w)]
       \/ \E j \in 0 .. (Len(wire.words) - 1) :
            wire' = [wire EXCEPT !.words = SubSeq(wire.words, 1, j)]
       \/ \E r \in {1, 31} : wire' = [wire EXCEPT !.rem = r]
    /\ tampered' = TRUE
    /\ UNCHANGED << inputs, prover, parse_result, v_proof, verifier, delta_test >>

\* the verifier parses the slice it received
FromBytes ==
    /\ wire # NoWire /\ parse_result = "none"
    /\ parse_result' = from_bytes(wire).result
    /\ v_proof' = from_bytes(wire).proof
    /\ UNCHANGED << inputs, prover, wire, tampered, verifier, delta_test >>

\* ------------------------------------------------------------------- verify
\* line 190: the weight the verifier checks
k == 1
\* line 225: the number of parties
m == 1

\* the mutant of delta: z^2 * n is subtracted in place of z^3 * n
delta_z2(n, y, z) ==
    LET z2 == Mul(z, z)
        sum_y == sum_of_powers(y, n)
    IN  Sub(Mul(Sub(z, z2), sum_y), Mul(z2, ScalarFrom(n)))
\* delta(n, y, z) = (z - z^2) * <1, y^n> - z^3 * n
delta(n, y, z) ==
    LET z2 == Mul(z, z)
        z3 == Mul(z2, z)
        sum_y == sum_of_powers(y, n)
    IN  Sub(Mul(Sub(z, z2), sum_y), Mul(z3, ScalarFrom(n)))

\* the error that validate_and_append_point returns: an absorption failure is an
\* algebraic rejection, and verify answers Ok, VerificationError or InvalidGeneratorsLength
ValidateError == "VerificationError"
\* TranscriptProtocol::validate_and_append_point
validate_and_append_point(tr, lbl, w) ==
    IF validate_point(w) THEN [err |-> "none", tr |-> append_point(tr, lbl, w)]
    ELSE [err |-> ValidateError, tr |-> tr]

\* line 192: bp_gens.gens_capacity < n
VerifyRejects(capacity, n) == capacity < n

\* lines 192-197: the capacity check, then the domain separator
VerifyEntry ==
    /\ v_pc = "idle" /\ parse_result = "Ok"
    /\ \E n \in 0 .. (MaxN + 1) :
        /\ v_n' = n
        /\ IF VerifyRejects(gens_capacity, n)
           THEN /\ v_pc' = "done"
                /\ v_result' = "InvalidGeneratorsLength"
                /\ UNCHANGED v_tr
           ELSE /\ v_pc' = "absorb_AS"
                /\ v_tr' = k_hot_proof_domain_sep(v_tr, n)
                /\ UNCHANGED v_result
    /\ UNCHANGED << inputs, prover, parser, v_loc, delta_test >>

\* line 199
AbsorbA(tr, pr) == validate_and_append_point(tr, "A", pr.A)
\* line 200
AbsorbS(tr, pr) == validate_and_append_point(tr, "S", pr.S)
\* line 207
AbsorbT1(tr, pr) == validate_and_append_point(tr, "T_1", pr.T_1)
\* the mutant of AbsorbT2: T_2 is absorbed without being validated
AbsorbT2_unvalidated(tr, pr) == [err |-> "none", tr |-> append_point(tr, "T_2", pr.T_2)]
\* line 208
AbsorbT2(tr, pr) == validate_and_append_point(tr, "T_2", pr.T_2)

\* lines 199-205: A and S, validated and absorbed; the challenges y and z
VerifyAbsorbAS ==
    /\ v_pc = "absorb_AS"
    /\ LET rA == AbsorbA(v_tr, v_proof)
           rS == AbsorbS(rA.tr, v_proof)
           tr2 == challenge_tr(rS.tr, "y")
       IN  IF rA.err # "none"
           THEN /\ v_result' = rA.err /\ v_pc' = "done" /\ v_tr' = rA.tr
                /\ UNCHANGED v_loc
           ELSE IF rS.err # "none"
           THEN /\ v_result' = rS.err /\ v_pc' = "done" /\ v_tr' = rS.tr
                /\ UNCHANGED v_loc
           ELSE /\ v_loc' = [v_loc EXCEPT !.y = challenge_scalar(rS.tr, "y"),
                                          !.z = challenge_scalar(tr2, "z")]
                /\ v_tr' = challenge_tr(tr2, "z")
                /\ v_pc' = "absorb_T"
                /\ UNCHANGED v_result
    /\ UNCHANGED << inputs, prover, parser, v_n, delta_test >>

\* the mutant of AbsorbScalars: t_x_blinding is absorbed before t_x
AbsorbScalars_swapped(tr, pr) ==
    append_scalar(append_scalar(append_scalar(tr, "t_x_blinding", pr.t_x_blinding),
                                "t_x", pr.t_x),
                  "e_blinding", pr.e_blinding)
\* lines 212-214: the three scalars absorbed
AbsorbScalars(tr, pr) ==
    append_scalar(append_scalar(append_scalar(tr, "t_x", pr.t_x),
                                "t_x_blinding", pr.t_x_blinding),
                  "e_blinding", pr.e_blinding)

\* lines 207-216: T_1 and T_2, validated and absorbed; x; the scalars; w
VerifyAbsorbT ==
    /\ v_pc = "absorb_T"
    /\ LET r1 == AbsorbT1(v_tr, v_proof)
           r2 == AbsorbT2(r1.tr, v_proof)
           tr3 == AbsorbScalars(challenge_tr(r2.tr, "x"), v_proof)
       IN  IF r1.err # "none"
           THEN /\ v_result' = r1.err /\ v_pc' = "done" /\ v_tr' = r1.tr
                /\ UNCHANGED v_loc
           ELSE IF r2.err # "none"
           THEN /\ v_result' = r2.err /\ v_pc' = "done" /\ v_tr' = r2.tr
                /\ UNCHANGED v_loc
           ELSE /\ v_loc' = [v_loc EXCEPT !.x = challenge_scalar(r2.tr, "x"),
                                          !.w = challenge_scalar(tr3, "w")]
                /\ v_tr' = challenge_tr(tr3, "w")
                /\ v_pc' = "ipp"
                /\ UNCHANGED v_result
    /\ UNCHANGED << inputs, prover, parser, v_n, delta_test >>

\* lines 218-220: the batching scalar c, then the replay of the halving challenges
VerifyIPP ==
    /\ v_pc = "ipp"
    /\ \E c \in Scalars :
        IF ~verification_scalars_ok(v_proof.ipp_proof, v_n)
        THEN /\ v_result' = "VerificationError" /\ v_pc' = "done"
             /\ UNCHANGED << v_tr, v_loc >>
        ELSE LET vs == verification_scalars(v_proof.ipp_proof, v_n, v_tr)
             IN  /\ v_loc' = [v_loc EXCEPT !.c = c, !.x_sq = vs.x_sq,
                                           !.x_inv_sq = vs.x_inv_sq, !.s = vs.s]
                 /\ v_tr' = vs.tr
                 /\ v_pc' = "msm"
                 /\ UNCHANGED v_result
    /\ UNCHANGED << inputs, prover, parser, v_n, delta_test >>

Reverse(q) == [i \in Range(Len(q)) |-> q[Len(q) + 1 - i]]

\* lines 229-234: z^0 * 1^n || ... || z^(m-1) * 1^n
concat_z_and_1(n, z) == [i \in Range(n * m) |-> Mul(Pow(1, (i - 1) % n), Pow(z, (i - 1) \div n))]

\* the mutant of g_scalars: z in place of minus_z
g_scalars_plus_z(z, a, s) == [i \in Range(Len(s)) |-> Sub(z, Mul(a, s[i]))]
\* line 236
g_scalars(z, a, s) == [i \in Range(Len(s)) |-> Sub(Neg(z), Mul(a, s[i]))]
\* lines 237-240
h_scalars(n, y, z, b, s) ==
    LET s_inv == Reverse(s)
        exp_y_inv == exp_iter(Invert(y), n)
        z_and_1 == concat_z_and_1(n, z)
    IN  [i \in Range(Len(s)) |->
            Add(z, Mul(exp_y_inv[i], Sub(Mul(Mul(z, z), z_and_1[i]), Mul(b, s_inv[i]))))]

\* the mutant of basepoint_scalar: the term k * zz is missing
basepoint_scalar_no_k(pr, n, y, z, w, c) ==
    Add(Mul(w, Sub(pr.t_x, Mul(pr.ipp_proof.a, pr.ipp_proof.b))),
        Mul(c, Sub(delta(n, y, z), pr.t_x)))
\* line 242
basepoint_scalar(pr, n, y, z, w, c) ==
    Add(Mul(w, Sub(pr.t_x, Mul(pr.ipp_proof.a, pr.ipp_proof.b))),
        Mul(c, Sub(Add(delta(n, y, z), Mul(k, Mul(z, z))), pr.t_x)))

\* lines 245-254: the scalars of the multi-scalar multiplication
mega_scalars(pr, n, l) ==
    << 1, l.x, Mul(l.c, l.x), Mul(Mul(l.c, l.x), l.x) >>
    \o l.x_sq \o l.x_inv_sq
    \o << Sub(Neg(pr.e_blinding), Mul(l.c, pr.t_x_blinding)),
          basepoint_scalar(pr, n, l.y, l.z, l.w, l.c) >>
    \o g_scalars(l.z, pr.ipp_proof.a, l.s)
    \o h_scalars(n, l.y, l.z, pr.ipp_proof.b, l.s)

\* lines 255-260: the compressed points of the proof that are decompressed
mega_proof_words(pr) ==
    << pr.A, pr.S, pr.T_1, pr.T_2 >> \o pr.ipp_proof.L_vec \o pr.ipp_proof.R_vec

\* lines 255-264: the points of the multi-scalar multiplication
mega_points(pr, n) ==
    [i \in Range(Len(mega_proof_words(pr))) |-> decompress(mega_proof_words(pr)[i])]
    \o << pc_B_blinding, pc_B >>
    \o [i \in Range(n) |-> gens_G(i)]
    \o [i \in Range(n) |-> gens_H(i)]

\* the mutant of DecompressFailure: a point that does not decompress is a format error
DecompressFailure_format == "FormatError"
\* line 266: ok_or_else(|| ProofError::VerificationError)
DecompressFailure == "VerificationError"

\* lines 223-273: the multi-scalar multiplication and the answer
VerifyMSM ==
    /\ v_pc = "msm"
    /\ IF \E i \in Range(Len(mega_proof_words(v_proof))) :
              ~IsPointWord(mega_proof_words(v_proof)[i])
       THEN /\ v_result' = DecompressFailure
            /\ UNCHANGED v_loc
       ELSE LET mega_check == multiscalar_mul(mega_scalars(v_proof, v_n, v_loc),
                                              mega_points(v_proof, v_n))
            IN  /\ v_loc' = [v_loc EXCEPT !.mega_check = mega_check]
                /\ v_result' = IF mega_check = Identity THEN "Ok" ELSE "VerificationError"
    /\ v_pc' = "done"
    /\ UNCHANGED << inputs, prover, parser, v_tr, v_n, delta_test >>

\* ------------------------------------------------------------ specification
Init ==
    /\ gens_capacity \in Capacities
    /\ secret_vec \in UNION { BinaryVecs(n) : n \in 0 .. MaxN }
    /\ label \in Labels
    /\ seed \in 0 .. MaxSeed
    /\ p_pc = "start"
    /\ p_tr = NewTranscript(label)
    /\ p_loc = NoProverLocals
    /\ p_result = "none"
    /\ proof = NoProof
    /\ wire = NoWire
    /\ tampered = FALSE
    /\ parse_result = "none"
    /\ v_proof = NoProof
    /\ v_pc = "idle"
    /\ v_tr = NewTranscript(label)
    /\ v_n = 0
    /\ v_loc = NoVerifierLocals
    /\ v_result = "none"
    /\ d_in = [n |-> 0, y |-> 0, z |-> 0]
    /\ d_pc = "idle"
    /\ d_i = 0
    /\ power_g = 0
    /\ exp_y = 1

Next ==
    \/ ProveEntry
    \/ ProveCommitAS
    \/ ProveCommitT
    \/ ProveEval
    \/ ProveIPP
    \/ ToBytes
    \/ Tamper
    \/ FromBytes
    \/ VerifyEntry
    \/ VerifyAbsorbAS
    \/ VerifyAbsorbT
    \/ VerifyIPP
    \/ VerifyMSM

Spec == Init /\ [][Next]_vars

\* ------------------------------------------------------------- test_delta
\* line 406: the n of test_delta
TestN == 256
DeltaLens == (0 .. MaxDeltaN) \cup {TestN}

\* lines 412-415: one iteration of the accumulation
DeltaStep ==
    /\ d_pc = "loop" /\ d_i < d_in.n
    /\ power_g' = Sub(Add(power_g, Mul(Sub(d_in.z, Mul(d_in.z, d_in.z)), exp_y)),
                      Mul(Mul(d_in.z, d_in.z), d_in.z))
    /\ exp_y' = Mul(exp_y, d_in.y)
    /\ d_i' = d_i + 1
    /\ UNCHANGED << inputs, prover, parser, verifier, d_in, d_pc >>

\* line 416: the loop is over and the sum is compared with delta(n, y, z)
DeltaDone ==
    /\ d_pc = "loop" /\ d_i = d_in.n
    /\ d_pc' = IF power_g = delta(d_in.n, d_in.y, d_in.z) THEN "passed" ELSE "failed"
    /\ UNCHANGED << inputs, prover, parser, verifier, d_in, d_i, power_g, exp_y >>

InitDelta ==
    /\ gens_capacity = MaxN
    /\ secret_vec = << >>
    /\ label = "KHotProofTest"
    /\ seed = 0
    /\ p_pc = "start"
    /\ p_tr = NewTranscript(label)
    /\ p_loc = NoProverLocals
    /\ p_result = "none"
    /\ proof = NoProof
    /\ wire = NoWire
    /\ tampered = FALSE
    /\ parse_result = "none"
    /\ v_proof = NoProof
    /\ v_pc = "idle"
    /\ v_tr = NewTranscript(label)
    /\ v_n = 0
    /\ v_loc = NoVerifierLocals
    /\ v_result = "none"
    /\ d_in \in [n : DeltaLens, y : Scalars, z : Scalars]
    /\ d_pc = "loop"
    /\ d_i = 0
    /\ power_g = 0
    /\ exp_y = 1

NextDelta ==
    \/ DeltaStep
    \/ DeltaDone

SpecDelta == InitDelta /\ [][NextDelta]_vars

\* ------------------------------------------------------------------- claims
\* the Hamming weight of the prover's vector
Weight == inner_product(secret_vec, [i \in Range(Len(secret_vec)) |-> 1])

\* verify was given the bytes that to_bytes wrote and the length of the prover's vector
Honest == ~tampered /\ v_n = Len(secret_vec)

\* verify went as far as the multi-scalar multiplication
ReachedMSM == Len(v_loc.s) > 0

\* the challenges u_j that the prover drew in the halving rounds
HalvingChallenges ==
    { challenge_scalar(SubSeq(p_tr, 1, i - 1), "u") :
        i \in { j \in Range(Len(p_tr)) : p_tr[j].op = "challenge" /\ p_tr[j].label = "u" } }

\* C1 (as stated): for every power-of-two n, every binary vector of weight k, every
\* label, all blindings of the prover and every batching scalar c, prove, to_bytes,
\* from_bytes and verify with the same generators, n and label return Ok.
Completeness ==
    (v_pc = "done" /\ Honest /\ Weight = k) => v_result = "Ok"

\* C1 (amended): the same run returns Ok provided that none of the points A, S, T_1,
\* T_2 of the proof is the identity and the challenges y and u_j are not zero.
CompletenessInvertible ==
    (/\ v_pc = "done" /\ Honest /\ Weight = k
     /\ \A pt \in {proof.A, proof.S, proof.T_1, proof.T_2} : pt # compress(Identity)
     /\ p_loc.y # 0
     /\ 0 \notin HalvingChallenges)
    => v_result = "Ok"

CompletenessWitness ==
    /\ v_pc = "done" /\ Honest /\ Weight = k /\ Len(secret_vec) > 2
    /\ v_loc.c # 0 /\ v_result = "Ok"

\* C2: when n exceeds gens_capacity, prove and verify return InvalidGeneratorsLength
\* and the transcript they were given is as it was.
GeneratorShortage ==
    /\ (p_pc # "start" /\ gens_capacity < Len(secret_vec))
        => (p_pc = "done" /\ p_result = "InvalidGeneratorsLength"
            /\ p_tr = NewTranscript(label))
    /\ (v_pc # "idle" /\ gens_capacity < v_n)
        => (v_pc = "done" /\ v_result = "InvalidGeneratorsLength"
            /\ v_tr = NewTranscript(label))

GeneratorShortageWitness ==
    /\ p_pc = "done" /\ Len(secret_vec) = gens_capacity + 1
    /\ p_result = "InvalidGeneratorsLength" /\ p_tr = NewTranscript(label)

Ops(tr) == [i \in Range(Len(tr)) |-> << tr[i].op, tr[i].label >>]
\* the operations on a transcript up to the hand-off to the inner-product argument
HandOffOps(lbl) ==
    << << "new", lbl >>, << "dom", "k-hot-proof v1" >>,
       << "point", "A" >>, << "point", "S" >>,
       << "challenge", "y" >>, << "challenge", "z" >>,
       << "point", "T_1" >>, << "point", "T_2" >>,
       << "challenge", "x" >>,
       << "scalar", "t_x" >>, << "scalar", "t_x_blinding" >>, << "scalar", "e_blinding" >>,
       << "challenge", "w" >> >>

\* the proof that verify was given has the values that prove wrote, the halving points apart
SameValues ==
    /\ v_proof.A = proof.A /\ v_proof.S = proof.S
    /\ v_proof.T_1 = proof.T_1 /\ v_proof.T_2 = proof.T_2
    /\ v_proof.t_x = proof.t_x /\ v_proof.t_x_blinding = proof.t_x_blinding
    /\ v_proof.e_blinding = proof.e_blinding

\* C3: up to the hand-off to the inner-product argument verify performs the operations
\* that prove performs, label for label and in order; for the same n and the same proof
\* values both derive the same y, z, x, w; and c is never absorbed.
TranscriptDiscipline ==
    /\ p_pc = "ipp" =>
        (Ops(p_tr) = HandOffOps(label) /\ p_tr[2].val = u64_bytes(Len(secret_vec)))
    /\ v_pc = "ipp" =>
        (Ops(v_tr) = HandOffOps(label) /\ v_tr[2].val = u64_bytes(v_n))
    /\ (v_pc = "ipp" /\ SameValues /\ v_n = Len(secret_vec)) =>
        (/\ v_tr = SubSeq(p_tr, 1, Len(v_tr))
         /\ v_loc.y = p_loc.y /\ v_loc.z = p_loc.z
         /\ v_loc.x = p_loc.x /\ v_loc.w = p_loc.w)
    /\ \A i \in Range(Len(v_tr)) :
        IF i <= Len(HandOffOps(label))
        THEN Ops(v_tr)[i] = HandOffOps(label)[i]
        ELSE v_tr[i].label \in {"L", "R", "u"}

TranscriptDisciplineWitness ==
    /\ v_pc = "ipp" /\ SameValues /\ v_n = Len(secret_vec) /\ Len(secret_vec) > 2
    /\ v_loc.w # 0 /\ v_loc.y # v_loc.z

\* the 32-byte string at a byte offset of the slice
WordAt(slice, off) == slice.words[off \div 32 + 1]

\* C4: from_bytes(to_bytes(p)) is p, field by field, for every proof p of prove; the
\* bytes are 7*32 + (2*log2(n) + 2)*32 long with A, S, T_1, T_2, t_x, t_x_blinding,
\* e_blinding at 0, 32, ..., 192 and the inner-product proof from 224.
SerializationRoundTrip ==
    (wire # NoWire /\ ~tampered) =>
        /\ SliceLen(wire) = 7 * 32 + (2 * Log2(Len(secret_vec)) + 2) * 32
        /\ WordAt(wire, 0) = proof.A /\ WordAt(wire, 32) = proof.S
        /\ WordAt(wire, 64) = proof.T_1 /\ WordAt(wire, 96) = proof.T_2
        /\ WordAt(wire, 128) = as_bytes(proof.t_x)
        /\ WordAt(wire, 160) = as_bytes(proof.t_x_blinding)
        /\ WordAt(wire, 192) = as_bytes(proof.e_blinding)
        /\ \A j \in Range(Len(proof.ipp_proof.L_vec)) :
            /\ WordAt(wire, 224 + 64 * (j - 1)) = proof.ipp_proof.L_vec[j]
            /\ WordAt(wire, 224 + 64 * (j - 1) + 32) = proof.ipp_proof.R_vec[j]
        /\ WordAt(wire, SliceLen(wire) - 64) = as_bytes(proof.ipp_proof.a)
        /\ WordAt(wire, SliceLen(wire) - 32) = as_bytes(proof.ipp_proof.b)
        /\ from_bytes(wire).result = "Ok" /\ from_bytes(wire).proof = proof
        /\ parse_result # "none" => (parse_result = "Ok" /\ v_proof = proof)

SerializationRoundTripWitness ==
    /\ parse_result = "Ok" /\ ~tampered /\ v_proof = proof
    /\ Len(proof.ipp_proof.L_vec) = 2 /\ proof.t_x # proof.t_x_blinding

\* the slices that from_bytes is to reject
MustReject(slice) ==
    \/ SliceLen(slice) < 7 * 32
    \/ SliceLen(slice) % 32 # 0
    \/ \E off \in {128, 160, 192} : ~IsCanonical(WordAt(slice, off))
    \/ ipp_from_bytes(SubSeq(slice.words, 8, Len(slice.words))).result # "Ok"

\* C5: from_bytes returns FormatError, and no proof, for a slice shorter than 7*32, of a
\* length that is no multiple of 32, with a non-canonical scalar at 128, 160 or 192, or
\* with a tail from 224 that is no inner-product proof; it reads nothing outside the slice.
ParseRejection ==
    parse_result # "none" =>
        /\ MustReject(wire) => (parse_result = "FormatError" /\ v_proof = NoProof)
        /\ parse_result # "Panic"
        /\ from_bytes(wire).read_end <= SliceLen(wire)

ParseRejectionWitness ==
    /\ parse_result = "FormatError" /\ SliceLen(wire) = 7 * 32 /\ v_proof = NoProof

HasIdentity(pr) == compress(Identity) \in {pr.A, pr.S, pr.T_1, pr.T_2}

\* C6: a proof with A, S, T_1 or T_2 the compressed identity is rejected at the
\* absorption of that point, before the multi-scalar multiplication, whatever the rest.
IdentityRejection ==
    /\ \A i \in Range(Len(v_tr)) :
        (v_tr[i].op = "point" /\ v_tr[i].label \in {"A", "S", "T_1", "T_2"})
            => v_tr[i].val # compress(Identity)
    /\ (v_pc # "idle" /\ ~VerifyRejects(gens_capacity, v_n) /\ HasIdentity(v_proof)) =>
        /\ v_pc \in {"absorb_AS", "absorb_T", "done"}
        /\ ~ReachedMSM
        /\ v_pc = "done" => v_result \in {"VerificationError", "FormatError"}

IdentityRejectionWitness ==
    /\ v_pc = "done" /\ tampered /\ v_proof.T_2 = compress(Identity)
    /\ \A pt \in {v_proof.A, v_proof.S, v_proof.T_1} : validate_point(pt)
    /\ v_result = "VerificationError" /\ Len(v_tr) = 7

DeltaLaw ==
    /\ d_pc # "failed"
    /\ d_pc \in {"loop", "passed"} => power_g = delta(d_i, d_in.y, d_in.z)

DeltaLawWitness ==
    /\ d_pc = "passed" /\ d_in.n = TestN /\ d_i = TestN /\ d_in.y > 1 /\ d_in.z > 1
    /\ power_g # 0

\* C9 (as stated): for an n that is no power of two and within the capacity, prove and
\* verify return an error at their entry and never come to the inner-product argument.
PowerOfTwoEnforced ==
    /\ (~IsPowerOfTwo(Len(secret_vec)) /\ ~ProveRejects(gens_capacity, Len(secret_vec)))
        => (p_pc \in {"start", "done"} /\ p_result \notin {"Ok", "Abort"}
            /\ p_tr = NewTranscript(label))
    /\ (v_pc # "idle" /\ ~IsPowerOfTwo(v_n) /\ ~VerifyRejects(gens_capacity, v_n))
        => (v_pc = "done" /\ v_result \notin {"none", "Ok"}
            /\ v_tr = NewTranscript(label))

\* C10: for a binary vector of weight W # k, prove succeeds, the constant coefficient of
\* t is delta(n, y, z) + W * z^2, and verify of the proof returns VerificationError when
\* (W - k) * z^2 # 0 and c # 0.
WeightBinding ==
    /\ (p_pc = "done" /\ IsPowerOfTwo(Len(secret_vec))
            /\ ~ProveRejects(gens_capacity, Len(secret_vec)))
        => p_result = "Ok"
    /\ p_pc \in {"commit_T", "eval", "ipp", "done"} =>
        t_poly(secret_vec, s_L, s_R, p_loc.y, p_loc.z)[1]
            = Add(delta(Len(secret_vec), p_loc.y, p_loc.z),
                  Mul(ScalarFrom(Weight), Mul(p_loc.z, p_loc.z)))
    /\ (/\ v_pc = "done" /\ Honest /\ Weight # k
        /\ Mul(Sub(ScalarFrom(Weight), k), Mul(p_loc.z, p_loc.z)) # 0
        /\ ReachedMSM => v_loc.c # 0)
        => v_result = "VerificationError"

WeightBindingWitness ==
    /\ v_pc = "done" /\ Honest /\ Weight > k /\ p_result = "Ok"
    /\ ReachedMSM /\ v_loc.c # 0 /\ p_loc.z # 0
    /\ v_loc.mega_check # Identity /\ v_result = "VerificationError"

====
